---- MODULE Spec2Model ----
(***************************************************************************)
(* Model of transmuseTATE: xml_to_remi.py (quantizers, REMI event encoder, *)
(* metadata merge, batch driver) and tokenise_remi.py (the pre-tokenizer   *)
(* that feeds the word-level vocabulary trainer).                          *)
(*                                                                         *)
(* Conventions.  Quarter lengths and offsets are exact rationals, written  *)
(* [n |-> numerator, d |-> denominator] with d > 0.  A Python str is the   *)
(* sequence of its characters, so that formatting, joining and splitting   *)
(* are computed and not assumed.                                           *)
(***************************************************************************)
EXTENDS Integers, Sequences, FiniteSets, TLC

VARIABLES
    \* quantize_duration applied to one duration
    qd_in, qd_out,
    \* the metadata half of convert_xml_to_remi_musicbert applied to one file
    md_path, md_src, md_out,
    \* the encoding loop of convert_xml_to_remi_musicbert over one score
    steps_per_quarter, score, tokens, enc_pc,
    \* the pre-tokenizer of tokenise_remi.py applied to one corpus line
    line_tokens, units,
    \* batch_process
    disk, meta_env, files, idx, pc, first_row, cur_tokens, cur_metadata,
    token_files, metadata_files, csv, log, written

quantVars  == <<qd_in, qd_out>>
metaVars   == <<md_path, md_src, md_out>>
encVars    == <<steps_per_quarter, score, tokens, enc_pc>>
vocabVars  == <<line_tokens, units>>
batchVars  == <<disk, meta_env, files, idx, pc, first_row, cur_tokens,
                cur_metadata, token_files, metadata_files, csv, log, written>>
vars == <<quantVars, metaVars, encVars, vocabVars, batchVars>>

----------------------------------------------------------------------------
(* Bounds *)

MaxDurN      == 144   \* durations n/32 for n in 1..MaxDurN (up to 4.5 quarters)
MaxParts     == 2     \* parts of a score
MaxMeasures  == 2     \* measures of a score, over all parts
MaxEvents    == 2     \* events of a score, over all measures
MaxLineTokens == 2    \* tokens on one corpus line

----------------------------------------------------------------------------
(* Exact rationals standing for Python floats / Fractions *)

Rat(n, d) == [n |-> n, d |-> d]

Abs(x) == IF x < 0 THEN -x ELSE x

\* a / b for rationals, b # 0; the denominator of the result is positive
RatDiv(a, b) ==
    IF b.n < 0 THEN Rat(-(a.n * b.d), a.d * (-b.n))
               ELSE Rat(a.n * b.d, a.d * b.n)

\* int(x): truncation toward zero
Trunc(r) == IF r.n < 0 THEN -((-r.n) \div r.d) ELSE r.n \div r.d

\* floor(x)
Floor(r) == r.n \div r.d

RatLess(a, b) == a.n * b.d < b.n * a.d

\* abs(a - b) as a rational
AbsDiff(a, b) == Rat(Abs(a.n * b.d - b.n * a.d), a.d * b.d)

----------------------------------------------------------------------------
(* Strings *)

DigitChar == <<"0","1","2","3","4","5","6","7","8","9">>

RECURSIVE NatStr(_)
NatStr(n) ==
    IF n < 10 THEN <<DigitChar[n + 1]>>
              ELSE NatStr(n \div 10) \o <<DigitChar[(n % 10) + 1]>>

\* str(n) / f"{n}" for an int
IntStr(n) == IF n < 0 THEN <<"-">> \o NatStr(-n) ELSE NatStr(n)

sBar           == <<"B","a","r">>
sRest          == <<"R","e","s","t">>
sPosition_     == <<"P","o","s","i","t","i","o","n","_">>
sPitch_        == <<"P","i","t","c","h","_">>
sDuration_     == <<"D","u","r","a","t","i","o","n","_">>
sArticulation_ == <<"A","r","t","i","c","u","l","a","t","i","o","n","_">>

\* " ".join(seq)
RECURSIVE Join(_)
Join(seq) ==
    IF seq = <<>> THEN <<>>
    ELSE IF Len(seq) = 1 THEN seq[1]
    ELSE seq[1] \o <<" ">> \o Join(Tail(seq))

----------------------------------------------------------------------------
(* Quantizer *)

\* The table in declaration order (dict iteration order).
DURATION_LABELS == <<
    [key |-> Rat(4, 1),  label |-> sDuration_ \o <<"1">>],
    [key |-> Rat(3, 1),  label |-> sDuration_ \o <<"d","2">>],
    [key |-> Rat(2, 1),  label |-> sDuration_ \o <<"1","/","2">>],
    [key |-> Rat(3, 2),  label |-> sDuration_ \o <<"d","1","/","4">>],
    [key |-> Rat(1, 1),  label |-> sDuration_ \o <<"1","/","4">>],
    [key |-> Rat(2, 3),  label |-> sDuration_ \o <<"1","/","4","t">>],
    [key |-> Rat(3, 4),  label |-> sDuration_ \o <<"d","1","/","8">>],
    [key |-> Rat(1, 2),  label |-> sDuration_ \o <<"1","/","8">>],
    [key |-> Rat(1, 3),  label |-> sDuration_ \o <<"1","/","8","t">>],
    [key |-> Rat(3, 8),  label |-> sDuration_ \o <<"d","1","/","1","6">>],
    [key |-> Rat(1, 4),  label |-> sDuration_ \o <<"1","/","1","6">>],
    [key |-> Rat(1, 6),  label |-> sDuration_ \o <<"1","/","1","6","t">>],
    [key |-> Rat(1, 8),  label |-> sDuration_ \o <<"1","/","3","2">>],
    [key |-> Rat(1, 12), label |-> sDuration_ \o <<"1","/","3","2","t">>] >>

\* step = quarter_length / steps_per_quarter; return int(offset / step)
quantize_position(offset, quarter_length, steps) ==
    LET step == RatDiv(quarter_length, Rat(steps, 1))
    IN  Trunc(RatDiv(offset, step))

\* min(iterable, key=...): the first element whose key is not exceeded by
\* any other; a later element replaces the candidate only when strictly less.
RECURSIVE MinKeyFrom(_, _, _)
MinKeyFrom(i, best, duration) ==
    IF i > Len(DURATION_LABELS) THEN best
    ELSE IF RatLess(AbsDiff(DURATION_LABELS[i].key, duration),
                    AbsDiff(DURATION_LABELS[best].key, duration))
         THEN MinKeyFrom(i + 1, i, duration)
         ELSE MinKeyFrom(i + 1, best, duration)

\* a min() that keeps the last of several equally close keys
RECURSIVE MinKeyFromLast(_, _, _)
MinKeyFromLast(i, best, duration) ==
    IF i > Len(DURATION_LABELS) THEN best
    ELSE IF ~ RatLess(AbsDiff(DURATION_LABELS[best].key, duration),
                      AbsDiff(DURATION_LABELS[i].key, duration))
         THEN MinKeyFromLast(i + 1, i, duration)
         ELSE MinKeyFromLast(i + 1, best, duration)

quantize_duration_last(duration) ==
    DURATION_LABELS[MinKeyFromLast(2, 1, duration)].label

quantize_duration(duration) ==
    DURATION_LABELS[MinKeyFrom(2, 1, duration)].label

----------------------------------------------------------------------------
(* Event Encoder *)

DEFAULT_STEPS_PER_QUARTER == 4    \* steps_per_quarter=4 in both signatures

Note(o, d, p, arts) ==
    [kind |-> "Note", offset |-> o, duration |-> d, pitch |-> p,
     articulations |-> arts]
Rest(o, d)  == [kind |-> "Rest", offset |-> o, duration |-> d]
\* what measure.notesAndRests also yields: a chord is a GeneralNote that is
\* neither a note.Note nor a note.Rest
Chord(o, d) == [kind |-> "Chord", offset |-> o, duration |-> d]

PositionToken(n) == sPosition_ \o IntStr(n)

\* an encoder whose Rest branch forgets the duration token
EventTokensRestNoDuration(el, spq) ==
    LET pos == quantize_position(el.offset, Rat(spq, 1),
                                 DEFAULT_STEPS_PER_QUARTER)
    IN  <<PositionToken(pos)>> \o
        (IF el.kind = "Note"
         THEN <<sPitch_ \o IntStr(el.pitch), quantize_duration(el.duration)>>
              \o [i \in 1..Len(el.articulations) |->
                      sArticulation_ \o el.articulations[i]]
         ELSE IF el.kind = "Rest"
         THEN <<sRest>>
         ELSE <<>>)

\* One pass of the body of "for el in measure.notesAndRests".  The call
\* quantize_position(el.offset, steps_per_quarter) binds its second
\* positional argument to quarter_length and leaves steps_per_quarter at
\* its default.
EventTokens(el, spq) ==
    LET pos == quantize_position(el.offset, Rat(spq, 1),
                                 DEFAULT_STEPS_PER_QUARTER)
    IN  <<PositionToken(pos)>> \o
        (IF el.kind = "Note"
         THEN <<sPitch_ \o IntStr(el.pitch), quantize_duration(el.duration)>>
              \o [i \in 1..Len(el.articulations) |->
                      sArticulation_ \o el.articulations[i]]
         ELSE IF el.kind = "Rest"
         THEN <<sRest, quantize_duration(el.duration)>>
         ELSE <<>>)

RECURSIVE EventsTokens(_, _)
EventsTokens(els, spq) ==
    IF els = <<>> THEN <<>>
    ELSE EventTokens(els[1], spq) \o EventsTokens(Tail(els), spq)

\* tokens.append("Bar") followed by the events of the measure
MeasureTokens(measure, spq) == <<sBar>> \o EventsTokens(measure, spq)

RECURSIVE PartTokens(_, _)
PartTokens(part, spq) ==
    IF part = <<>> THEN <<>>
    ELSE MeasureTokens(part[1], spq) \o PartTokens(Tail(part), spq)

\* the token list built by the loops of convert_xml_to_remi_musicbert for a
\* parsed score: a sequence of parts, each a sequence of measures, each a
\* sequence of events
RECURSIVE Encode(_, _)
Encode(sc, spq) ==
    IF sc = <<>> THEN <<>>
    ELSE PartTokens(sc[1], spq) \o Encode(Tail(sc), spq)

----------------------------------------------------------------------------
(* Paths and metadata *)

\* an input file PROJECT_ROOT/mxl/<dir>/<stem>.mxl
PathSet == {[dir |-> "a", stem |-> "x"], [dir |-> "b", stem |-> "x"],
            [dir |-> "a", stem |-> "y"]}

\* os.path.basename(file_path)
basename(p) == <<p.stem, "mxl">>

\* Path(file_path).stem
stem(p) == basename(p)[1]

\* "./" + str(file.relative_to(PROJECT_ROOT).as_posix())
rel_path(p) == <<".", "mxl", p.dir, basename(p)>>

RelPaths == {rel_path(p) : p \in PathSet}

EmptyDict == [k \in {} |-> 0]

\* What the index and the metadata store hold for one relative path:
\*   "absent"      no PDMX_DICT entry
\*   "unreadable"  an entry whose JSON file cannot be opened or parsed
\*   "json"        an entry whose file parses; dict says whether the JSON
\*                 value is an object, rec is the object
Absent      == [kind |-> "absent",     dict |-> FALSE, rec |-> EmptyDict]
Unreadable  == [kind |-> "unreadable", dict |-> FALSE, rec |-> EmptyDict]
JsonList    == [kind |-> "json",       dict |-> FALSE, rec |-> EmptyDict]
JsonDict(r) == [kind |-> "json",       dict |-> TRUE,  rec |-> r]

\* the value returned by load_external_metadata
load_external_metadata(mxl_path_relative, env) ==
    IF env[mxl_path_relative].kind = "absent"
    THEN [dict |-> TRUE, rec |-> EmptyDict]
    ELSE IF env[mxl_path_relative].kind = "unreadable"
    THEN [dict |-> TRUE, rec |-> EmptyDict]
    ELSE [dict |-> env[mxl_path_relative].dict,
          rec  |-> env[mxl_path_relative].rec]

\* d.setdefault(key, value): an existing key keeps its value
SetDefault(d, key, value) ==
    [k \in DOMAIN d \cup {key} |-> IF k \in DOMAIN d THEN d[k] ELSE value]

\* d[key] = value
SetItem(d, key, value) ==
    [k \in DOMAIN d \cup {key} |-> IF k = key THEN value ELSE d[k]]

\* metadata = load_external_metadata(rel_mxl_path)
\* metadata["filename"] = os.path.basename(file_path)
\* Item assignment on a JSON value that is not an object raises TypeError.
MergedMetadata(p, env) ==
    LET loaded == load_external_metadata(rel_path(p), env)
    IN  IF loaded.dict
        THEN [raised |-> FALSE,
              metadata |-> SetItem(loaded.rec, "filename", basename(p))]
        ELSE [raised |-> TRUE, metadata |-> EmptyDict]

\* A file on disk: missing, corrupt (converter.parse raises) or a score.
Missing     == [state |-> "missing", score |-> <<>>]
Corrupt     == [state |-> "corrupt", score |-> <<>>]
Parsable(s) == [state |-> "ok",      score |-> s]

\* convert_xml_to_remi_musicbert(file, rel_path) as batch_process calls it
convert_xml_to_remi_musicbert(p, dsk, env) ==
    IF dsk[p].state # "ok"
    THEN [raised |-> TRUE, tokens |-> <<>>, metadata |-> EmptyDict]
    ELSE LET m == MergedMetadata(p, env)
         IN  IF m.raised
             THEN [raised |-> TRUE, tokens |-> <<>>, metadata |-> EmptyDict]
             ELSE [raised |-> FALSE,
                   tokens |-> Encode(dsk[p].score, DEFAULT_STEPS_PER_QUARTER),
                   metadata |-> m.metadata]

----------------------------------------------------------------------------
(* Values the variables of a component hold while it is not exercised *)

NotCalled == [called |-> FALSE, raised |-> FALSE, metadata |-> EmptyDict]

QuantIdle == qd_in = Rat(1, 1) /\ qd_out = <<>>
MetaIdle  == md_path = [dir |-> "a", stem |-> "x"] /\ md_src = Absent
             /\ md_out = NotCalled
EncIdle   == steps_per_quarter = DEFAULT_STEPS_PER_QUARTER /\ score = <<>>
             /\ tokens = <<>> /\ enc_pc = "idle"
VocabIdle == line_tokens = <<>> /\ units = <<>>
BatchIdle == /\ disk = [p \in PathSet |-> Missing]
             /\ meta_env = [r \in RelPaths |-> Absent]
             /\ files = <<>> /\ idx = 0 /\ pc = "idle" /\ first_row = TRUE
             /\ cur_tokens = <<>> /\ cur_metadata = EmptyDict
             /\ token_files = EmptyDict /\ metadata_files = EmptyDict
             /\ csv = <<>> /\ log = <<>> /\ written = [p \in PathSet |-> {}]

----------------------------------------------------------------------------
(* quantize_duration on one duration *)

DurationInputs ==
    {Rat(n, 32) : n \in 1..MaxDurN}
    \cup {Rat(2, 3), Rat(1, 3), Rat(1, 6), Rat(1, 12)}

QuantInit ==
    /\ qd_in \in DurationInputs /\ qd_out = <<>>
    /\ MetaIdle /\ EncIdle /\ VocabIdle /\ BatchIdle

QuantizeDuration ==
    /\ qd_out = <<>>
    /\ qd_out' = quantize_duration(qd_in)
    /\ UNCHANGED <<qd_in, metaVars, encVars, vocabVars, batchVars>>

QuantNext == QuantizeDuration

SpecQuantize == QuantInit /\ [][QuantNext]_vars

----------------------------------------------------------------------------
(* The metadata record of convert_xml_to_remi_musicbert for one file *)

FilenameVals == {<<"x", "mxl">>, <<"y", "mxl">>, <<"old", "mxl">>}
TitleVals    == {"T1", "T2", "T3"}

\* JSON objects a metadata file may hold
RecordSet ==
    {EmptyDict}
    \cup {[filename |-> f] : f \in FilenameVals}
    \cup {[title |-> t] : t \in TitleVals}
    \cup {[filename |-> f, title |-> t] : f \in FilenameVals, t \in TitleVals}

MetaSources == {Absent, Unreadable, JsonList} \cup {JsonDict(r) : r \in RecordSet}

\* the index and store seen by a call for md_path
MdEnv == [r \in RelPaths |-> IF r = rel_path(md_path) THEN md_src ELSE Absent]

MetaInit ==
    /\ md_path \in PathSet /\ md_src \in MetaSources /\ md_out = NotCalled
    /\ QuantIdle /\ EncIdle /\ VocabIdle /\ BatchIdle

LoadAndMerge ==
    /\ ~ md_out.called
    /\ LET m == MergedMetadata(md_path, MdEnv)
       IN  md_out' = [called |-> TRUE, raised |-> m.raised,
                      metadata |-> m.metadata]
    /\ UNCHANGED <<md_path, md_src, quantVars, encVars, vocabVars, batchVars>>

MetaNext == LoadAndMerge

SpecMeta == MetaInit /\ [][MetaNext]_vars

----------------------------------------------------------------------------
(* The loops of convert_xml_to_remi_musicbert over one score.  The parser  *)
(* yields the parts, measures and events one at a time; score is what has  *)
(* been yielded so far.                                                    *)

sStaccato == <<"S","t","a","c","c","a","t","o">>
sAccent   == <<"A","c","c","e","n","t">>

Offsets      == {Rat(-1, 2), Rat(1, 2), Rat(1, 1)}
Pitches      == {60}
ArtLists     == {<<>>, <<sStaccato, sAccent>>}
StepsChoices == {2, 4}

EventSet ==
    {Note(o, Rat(1, 1), p, a) : o \in Offsets, p \in Pitches, a \in ArtLists}
    \cup {Rest(o, Rat(1, 2)) : o \in Offsets}
    \cup {Chord(o, Rat(1, 1)) : o \in Offsets}

RECURSIVE Flatten(_)
Flatten(seqs) == IF seqs = <<>> THEN <<>> ELSE seqs[1] \o Flatten(Tail(seqs))

Measures(sc) == Flatten(sc)             \* all measures, in encoding order
Events(sc)   == Flatten(Measures(sc))   \* all events, in encoding order

EncInit ==
    /\ steps_per_quarter \in StepsChoices
    /\ score = <<>> /\ tokens = <<>> /\ enc_pc = "loop"
    /\ QuantIdle /\ MetaIdle /\ VocabIdle /\ BatchIdle

\* for part in score.parts
NextPart ==
    /\ enc_pc = "loop"
    /\ Len(score) < MaxParts
    /\ score' = Append(score, <<>>)
    /\ UNCHANGED <<steps_per_quarter, tokens, enc_pc>>
    /\ UNCHANGED <<quantVars, metaVars, vocabVars, batchVars>>

\* for measure in measures: tokens.append("Bar")
NextMeasure ==
    /\ enc_pc = "loop"
    /\ Len(score) > 0
    /\ Len(Measures(score)) < MaxMeasures
    /\ score' = [score EXCEPT ![Len(score)] = Append(@, <<>>)]
    /\ tokens' = Append(tokens, sBar)
    /\ UNCHANGED <<steps_per_quarter, enc_pc>>
    /\ UNCHANGED <<quantVars, metaVars, vocabVars, batchVars>>

\* for el in measure.notesAndRests: the tokens of one event
NextEvent ==
    /\ enc_pc = "loop"
    /\ Len(score) > 0
    /\ Len(score[Len(score)]) > 0
    /\ Len(Events(score)) < MaxEvents
    /\ \E el \in EventSet :
         /\ score' = [score EXCEPT ![Len(score)] =
                         [@ EXCEPT ![Len(@)] = Append(@, el)]]
         /\ tokens' = tokens \o EventTokens(el, steps_per_quarter)
    /\ UNCHANGED <<steps_per_quarter, enc_pc>>
    /\ UNCHANGED <<quantVars, metaVars, vocabVars, batchVars>>

\* return tokens, metadata
Return ==
    /\ enc_pc = "loop"
    /\ enc_pc' = "returned"
    /\ UNCHANGED <<steps_per_quarter, score, tokens>>
    /\ UNCHANGED <<quantVars, metaVars, vocabVars, batchVars>>

EncNext == NextPart \/ NextMeasure \/ NextEvent \/ Return

SpecEncode == EncInit /\ [][EncNext]_vars

----------------------------------------------------------------------------
(* tokenise_remi.py: one corpus line through the Whitespace pre-tokenizer  *)

Letters ==
    {"a","b","c","d","e","f","g","h","i","j","k","l","m","n","o","p","q","r",
     "s","t","u","v","w","x","y","z",
     "A","B","C","D","E","F","G","H","I","J","K","L","M","N","O","P","Q","R",
     "S","T","U","V","W","X","Y","Z"}
Digits == {DigitChar[i] : i \in 1..10}

\* regex classes \w and \s
WordChars  == Letters \cup Digits \cup {"_"}
SpaceChars == {" ", "\n", "\t"}

CharClass(c) ==
    IF c \in WordChars THEN "word"
    ELSE IF c \in SpaceChars THEN "space" ELSE "punct"

\* str.strip()
RECURSIVE LStrip(_)
LStrip(cs) ==
    IF cs # <<>> /\ cs[1] \in SpaceChars THEN LStrip(Tail(cs)) ELSE cs
RECURSIVE RStrip(_)
RStrip(cs) ==
    IF cs # <<>> /\ cs[Len(cs)] \in SpaceChars
    THEN RStrip(SubSeq(cs, 1, Len(cs) - 1)) ELSE cs
Strip(cs) == RStrip(LStrip(cs))

\* pre_tokenizers.Whitespace(): the matches of \w+|[^\w\s]+ from left to
\* right, i.e. the maximal runs of word characters and the maximal runs of
\* characters that are neither word characters nor whitespace
RECURSIVE WhitespaceScan(_, _, _, _)
WhitespaceScan(cs, i, cur, acc) ==
    LET flushed == IF cur = <<>> THEN acc ELSE Append(acc, cur)
    IN  IF i > Len(cs) THEN flushed
        ELSE IF CharClass(cs[i]) = "space"
        THEN WhitespaceScan(cs, i + 1, <<>>, flushed)
        ELSE IF cur # <<>> /\ CharClass(cur[1]) = CharClass(cs[i])
        THEN WhitespaceScan(cs, i + 1, Append(cur, cs[i]), acc)
        ELSE WhitespaceScan(cs, i + 1, <<cs[i]>>, flushed)

Whitespace(cs) == WhitespaceScan(cs, 1, <<>>, <<>>)

\* tokens the Event Encoder can emit
TokenSet ==
    {sBar, sRest, PositionToken(0), PositionToken(2), sPitch_ \o IntStr(60),
     sArticulation_ \o sStaccato}
    \cup {DURATION_LABELS[i].label : i \in 1..Len(DURATION_LABELS)}

Lines == UNION {[1..n -> TokenSet] : n \in 1..MaxLineTokens}

VocabInit ==
    /\ line_tokens \in Lines /\ units = <<>>
    /\ QuantIdle /\ MetaIdle /\ EncIdle /\ BatchIdle

\* f.write(line.strip() + "\n") for the line of space-joined tokens, then
\* the trainer pre-tokenizes the training file
Train ==
    /\ units = <<>>
    /\ units' = Whitespace(Strip(Join(line_tokens)) \o <<"\n">>)
    /\ UNCHANGED <<line_tokens, quantVars, metaVars, encVars, batchVars>>

VocabNext == Train

SpecVocab == VocabInit /\ [][VocabNext]_vars

----------------------------------------------------------------------------
(* batch_process *)

\* two scores of one part and one measure
ScoreA   == << << << Note(Rat(0, 1), Rat(1, 1), 60, <<>>) >> >> >>
ScoreNeg == << << << Rest(Rat(-1, 2), Rat(1, 2)) >> >> >>

DiskContents == {Missing, Corrupt, Parsable(ScoreA), Parsable(ScoreNeg)}
BatchMetaSources ==
    {Absent, JsonList, JsonDict([filename |-> <<"old", "mxl">>, title |-> "T1"])}

\* the orders in which rglob may yield the files of a set
Orderings(S) ==
    {f \in [1..Cardinality(S) -> S] : \A i, j \in DOMAIN f : f[i] = f[j] => i = j}

Init ==
    /\ disk \in [PathSet -> DiskContents]
    /\ meta_env \in [RelPaths -> BatchMetaSources]
    /\ files \in Orderings({p \in PathSet : disk[p].state # "missing"})
    /\ idx = 0 /\ pc = "loop" /\ first_row = TRUE
    /\ cur_tokens = <<>> /\ cur_metadata = EmptyDict
    /\ token_files = EmptyDict /\ metadata_files = EmptyDict
    /\ csv = <<>> /\ log = <<>> /\ written = [p \in PathSet |-> {}]
    /\ QuantIdle /\ MetaIdle /\ EncIdle /\ VocabIdle

file == files[idx]     \* the loop variable

otherVars == <<quantVars, metaVars, encVars, vocabVars>>

\* for file in input_path.rglob("*.mxl"): ... print("Processing: ...")
NextFile ==
    /\ pc = "loop" /\ idx < Len(files)
    /\ idx' = idx + 1
    /\ log' = Append(log, [msg |-> "processing", file |-> files[idx + 1]])
    /\ pc' = "convert"
    /\ UNCHANGED <<disk, meta_env, files, first_row, cur_tokens, cur_metadata,
                   token_files, metadata_files, csv, written, otherVars>>

\* the loop is exhausted: print("Metadata written to ...")
Finish ==
    /\ pc = "loop" /\ idx = Len(files)
    /\ pc' = "done"
    /\ UNCHANGED <<disk, meta_env, files, idx, first_row, cur_tokens,
                   cur_metadata, token_files, metadata_files, csv, log,
                   written, otherVars>>

\* tokens, metadata = convert_xml_to_remi_musicbert(file, rel_path)
ConvertReturns ==
    /\ pc = "convert"
    /\ LET r == convert_xml_to_remi_musicbert(file, disk, meta_env)
       IN  /\ ~ r.raised
           /\ cur_tokens' = r.tokens
           /\ cur_metadata' = r.metadata
    /\ pc' = "save_tokens"
    /\ UNCHANGED <<disk, meta_env, files, idx, first_row, token_files,
                   metadata_files, csv, log, written, otherVars>>

\* the call raises: a handler that lets the exception end the run
ConvertRaisesAbort ==
    /\ pc = "convert"
    /\ convert_xml_to_remi_musicbert(file, disk, meta_env).raised
    /\ log' = Append(log, [msg |-> "error", file |-> file])
    /\ pc' = "done"
    /\ UNCHANGED <<disk, meta_env, files, idx, first_row, cur_tokens,
                   cur_metadata, token_files, metadata_files, csv, written,
                   otherVars>>

\* the call raises: except Exception prints the error, the loop goes on
ConvertRaises ==
    /\ pc = "convert"
    /\ convert_xml_to_remi_musicbert(file, disk, meta_env).raised
    /\ log' = Append(log, [msg |-> "error", file |-> file])
    /\ pc' = "loop"
    /\ UNCHANGED <<disk, meta_env, files, idx, first_row, cur_tokens,
                   cur_metadata, token_files, metadata_files, csv, written,
                   otherVars>>

\* save_tokens(tokens, file, output_dir)
save_tokens ==
    /\ pc = "save_tokens"
    /\ token_files' = SetItem(token_files, <<stem(file), "remi.txt">>,
                              Join(cur_tokens))
    /\ written' = [written EXCEPT ![file] = @ \cup {"tokens"}]
    /\ pc' = "save_metadata"
    /\ UNCHANGED <<disk, meta_env, files, idx, first_row, cur_tokens,
                   cur_metadata, metadata_files, csv, log, otherVars>>

\* save_metadata_json(metadata, file, output_dir)
save_metadata_json ==
    /\ pc = "save_metadata"
    /\ metadata_files' = SetItem(metadata_files,
                                 <<stem(file), "metadata.json">>, cur_metadata)
    /\ written' = [written EXCEPT ![file] = @ \cup {"metadata"}]
    /\ pc' = "to_csv"
    /\ UNCHANGED <<disk, meta_env, files, idx, first_row, cur_tokens,
                   cur_metadata, token_files, csv, log, otherVars>>

HeaderRow(m) == [kind |-> "header", columns |-> DOMAIN m, values |-> EmptyDict]
DataRow(m)   == [kind |-> "data",   columns |-> DOMAIN m, values |-> m]

\* a loop that never clears first_row
to_csv_keep_flag ==
    /\ pc = "to_csv"
    /\ csv' = csv \o (IF first_row THEN <<HeaderRow(cur_metadata)>> ELSE <<>>)
                  \o <<DataRow(cur_metadata)>>
    /\ first_row' = first_row
    /\ written' = [written EXCEPT ![file] = @ \cup {"row"}]
    /\ pc' = "loop"
    /\ UNCHANGED <<disk, meta_env, files, idx, cur_tokens, cur_metadata,
                   token_files, metadata_files, log, otherVars>>

\* df_row.to_csv(metadata_csv_path, mode='a', index=False, header=first_row)
\* first_row = False
to_csv ==
    /\ pc = "to_csv"
    /\ csv' = csv \o (IF first_row THEN <<HeaderRow(cur_metadata)>> ELSE <<>>)
                  \o <<DataRow(cur_metadata)>>
    /\ first_row' = FALSE
    /\ written' = [written EXCEPT ![file] = @ \cup {"row"}]
    /\ pc' = "loop"
    /\ UNCHANGED <<disk, meta_env, files, idx, cur_tokens, cur_metadata,
                   token_files, metadata_files, log, otherVars>>

Next ==
    \/ NextFile \/ ConvertReturns \/ ConvertRaises
    \/ save_tokens \/ save_metadata_json \/ to_csv \/ Finish

Spec == Init /\ [][Next]_vars

----------------------------------------------------------------------------
(* Properties of the encoder (SpecEncode) *)

IsPositionToken(tk) ==
    Len(tk) > Len(sPosition_) /\ SubSeq(tk, 1, Len(sPosition_)) = sPosition_

PositionsOf(tks) == SelectSeq(tks, IsPositionToken)

\* floor(o / (1.0 / s))
ClaimedPosition(o, s) == Floor(RatDiv(o, RatDiv(Rat(1, 1), Rat(s, 1))))

IsNote(el)  == el.kind = "Note"
IsRest(el)  == el.kind = "Rest"
IsOther(el) == el.kind \notin {"Note", "Rest"}

RECURSIVE ArticulationCount(_)
ArticulationCount(els) ==
    IF els = <<>> THEN 0
    ELSE (IF IsNote(els[1]) THEN Len(els[1].articulations) ELSE 0)
         + ArticulationCount(Tail(els))

NoteOrRest(el) == ~ IsOther(el)

\* the score with every event that is neither Note nor Rest removed
WithoutOther(sc) ==
    [i \in 1..Len(sc) |->
        [j \in 1..Len(sc[i]) |-> SelectSeq(sc[i][j], NoteOrRest)]]

\* C1: for every score whose events all have non-negative offsets, the
\* Position tokens emitted, in order, are Position_n with
\* n = floor(offset / (1.0 / steps_per_quarter)), one per event.
C1_PositionIsOffsetTimesSteps ==
    LET evs == Events(score)
    IN  (\A i \in 1..Len(evs) : evs[i].offset.n >= 0)
        => PositionsOf(tokens) =
             [i \in 1..Len(evs) |->
                 PositionToken(ClaimedPosition(evs[i].offset,
                                               steps_per_quarter))]

\* C2 as stated: for a returned score made of Notes and Rests, the number
\* of tokens is measures + 2 * events + notes + articulations.
C2_LengthAsStated ==
    LET evs == Events(score)
    IN  (enc_pc = "returned" /\ \A i \in 1..Len(evs) : NoteOrRest(evs[i]))
        => Len(tokens) = Len(Measures(score)) + 2 * Len(evs)
                         + Len(SelectSeq(evs, IsNote))
                         + ArticulationCount(evs)

\* C2 amended: the number of tokens returned is measures + 2 * events
\* + notes + rests + articulations when every event is a Note or a Rest
\* (a Rest carries a duration token too); an event of another kind
\* contributes exactly one token.
C2_Length ==
    LET evs == Events(score)
    IN  enc_pc = "returned"
        => Len(tokens) = Len(Measures(score))
                         + 2 * Len(SelectSeq(evs, NoteOrRest))
                         + Len(SelectSeq(evs, IsNote))
                         + Len(SelectSeq(evs, IsRest))
                         + ArticulationCount(evs)
                         + Len(SelectSeq(evs, IsOther))

\* a returned score with an empty measure, a Note carrying articulations
\* and a Rest
C2_Witness ==
    LET evs == Events(score) ms == Measures(score)
    IN  /\ enc_pc = "returned"
        /\ \E i \in 1..Len(ms) : ms[i] = <<>>
        /\ \E i \in 1..Len(evs) : IsNote(evs[i]) /\ evs[i].articulations # <<>>
        /\ \E i \in 1..Len(evs) : IsRest(evs[i])

\* C3: the tokens returned for a score are those of the score with every
\* event that is neither a Note nor a Rest removed.
C3_OtherEventsLeaveNoToken ==
    enc_pc = "returned"
    => tokens = Encode(WithoutOther(score), steps_per_quarter)

----------------------------------------------------------------------------
(* Properties of quantize_duration (SpecQuantize) *)

Dist(i) == AbsDiff(DURATION_LABELS[i].key, qd_in)
Keys == 1..Len(DURATION_LABELS)
SameRat(a, b) == a.n * b.d = b.n * a.d

\* C6: the label returned is that of a key at minimal distance from the
\* duration, of the first such key in declaration order; a canonical
\* duration gets its own label; 3.5 -> Duration_1 and 2.5 -> Duration_d2.
C6_NearestFirstDeclared ==
    qd_out # <<>> =>
      /\ \E i \in Keys :
           /\ qd_out = DURATION_LABELS[i].label
           /\ \A j \in Keys : ~ RatLess(Dist(j), Dist(i))
           /\ \A j \in 1..(i - 1) : RatLess(Dist(i), Dist(j))
      /\ \A i \in Keys : SameRat(DURATION_LABELS[i].key, qd_in)
                         => qd_out = DURATION_LABELS[i].label
      /\ SameRat(qd_in, Rat(1, 1)) => qd_out = sDuration_ \o <<"1","/","4">>
      /\ SameRat(qd_in, Rat(1, 2)) => qd_out = sDuration_ \o <<"1","/","8">>
      /\ SameRat(qd_in, Rat(7, 2)) => qd_out = sDuration_ \o <<"1">>
      /\ SameRat(qd_in, Rat(5, 2)) => qd_out = sDuration_ \o <<"d","2">>

\* a duration halfway between two keys has been quantized
C6_Witness ==
    /\ SameRat(qd_in, Rat(7, 2))
    /\ qd_out = sDuration_ \o <<"1">>
    /\ SameRat(Dist(1), Dist(2))

----------------------------------------------------------------------------
(* Properties of the metadata record (SpecMeta) *)

\* C8: the record returned has filename = base name of the source file;
\* a loaded filename is overwritten and every other loaded key is kept;
\* with no index entry or an unreadable metadata file nothing is raised
\* and the record is exactly {filename: base name}.
C8_FilenameAlwaysSet ==
    md_out.called =>
      /\ md_src.kind \in {"absent", "unreadable"}
           => /\ ~ md_out.raised
              /\ md_out.metadata = [filename |-> basename(md_path)]
      /\ ~ md_out.raised
           => /\ "filename" \in DOMAIN md_out.metadata
              /\ md_out.metadata["filename"] = basename(md_path)
              /\ DOMAIN md_out.metadata = DOMAIN md_src.rec \cup {"filename"}
              /\ \A k \in DOMAIN md_src.rec \ {"filename"} :
                     md_out.metadata[k] = md_src.rec[k]

\* a loaded record with a stale filename and another key has been merged
C8_Witness ==
    /\ md_out.called /\ ~ md_out.raised
    /\ md_src.kind = "json"
    /\ DOMAIN md_src.rec = {"filename", "title"}
    /\ md_src.rec["filename"] # basename(md_path)
    /\ md_out.metadata["title"] = md_src.rec["title"]

----------------------------------------------------------------------------
(* Properties of batch_process (Spec) *)

\* whether processing p can complete: the file parses and its metadata,
\* if any is loaded, is a JSON object
Succeeds(p) ==
    /\ disk[p].state = "ok"
    /\ ~ (meta_env[rel_path(p)].kind = "json" /\ ~ meta_env[rel_path(p)].dict)

DataRows(rows) == SelectSeq(rows, LAMBDA r : r.kind = "data")
HeaderRows(rows) == SelectSeq(rows, LAMBDA r : r.kind = "header")

Processed(p) == \E j \in 1..Len(log) : log[j] = [msg |-> "processing", file |-> p]
Reported(p)  == \E j \in 1..Len(log) : log[j] = [msg |-> "error", file |-> p]

\* C4: a file that fails parsing leaves no artifact of its own; at the end
\* of the run every discovered file has been processed, every file that
\* can be processed has its three artifacts, and the table has one data
\* row per successfully processed file.
C4_FailureIsolation ==
    /\ \A p \in PathSet : disk[p].state = "corrupt" => written[p] = {}
    /\ pc = "done" =>
         /\ \A i \in 1..Len(files) :
              /\ Processed(files[i])
              /\ disk[files[i]].state = "corrupt" => Reported(files[i])
              /\ Succeeds(files[i])
                   => written[files[i]] = {"tokens", "metadata", "row"}
         /\ Len(DataRows(csv)) =
              Cardinality({i \in 1..Len(files) : Succeeds(files[i])})

\* three files, the middle one corrupt: two token files, two metadata
\* files, two data rows
C4_Witness ==
    /\ pc = "done" /\ Len(files) = 3
    /\ Succeeds(files[1]) /\ disk[files[2]].state = "corrupt"
    /\ Succeeds(files[3])
    /\ Cardinality(DOMAIN token_files) = 2
    /\ Cardinality(DOMAIN metadata_files) = 2
    /\ Len(DataRows(csv)) = 2

FirstSuccess ==
    CHOOSE i \in 1..Len(files) :
        Succeeds(files[i]) /\ \A j \in 1..(i - 1) : ~ Succeeds(files[j])

\* C5: the flag is consumed exactly when something has been written to the
\* table; the table, once non-empty, is one header row followed by data
\* rows only, and the row under the header is that of the first
\* successfully processed file.
C5_HeaderOnceWithFirstSuccess ==
    /\ first_row <=> csv = <<>>
    /\ csv # <<>> =>
         /\ Len(csv) >= 2
         /\ csv[1].kind = "header"
         /\ \A i \in 2..Len(csv) : csv[i].kind = "data"
         /\ \E i \in 1..idx : Succeeds(files[i])
         /\ LET m == MergedMetadata(files[FirstSuccess], meta_env).metadata
            IN  csv[1] = HeaderRow(m) /\ csv[2] = DataRow(m)

\* a run whose first file failed and whose next two files succeeded
C5_Witness ==
    /\ pc = "done" /\ Len(files) = 3
    /\ ~ Succeeds(files[1]) /\ Succeeds(files[2]) /\ Succeeds(files[3])
    /\ Len(HeaderRows(csv)) = 1 /\ Len(DataRows(csv)) = 2

RECURSIVE HasNegativeOffset(_)
HasNegativeOffset(els) ==
    els # <<>> /\ (els[1].offset.n < 0 \/ HasNegativeOffset(Tail(els)))

\* C7: a file whose score holds an event with a negative offset fails as
\* a whole: it writes no token file, no metadata file and no row.
C7_NegativeOffsetFailsFile ==
    \A p \in PathSet :
        (disk[p].state = "ok" /\ HasNegativeOffset(Events(disk[p].score)))
        => written[p] = {}

\* C9: after a run in which every discovered file was processed
\* successfully, each input's token file holds that input's tokens and its
\* metadata file holds that input's metadata.
C9_ArtifactsPerInput ==
    (pc = "done" /\ \A i \in 1..Len(files) : Succeeds(files[i]))
    => \A i \in 1..Len(files) :
         LET p == files[i]
         IN  /\ <<stem(p), "remi.txt">> \in DOMAIN token_files
             /\ token_files[<<stem(p), "remi.txt">>] =
                  Join(Encode(disk[p].score, DEFAULT_STEPS_PER_QUARTER))
             /\ <<stem(p), "metadata.json">> \in DOMAIN metadata_files
             /\ metadata_files[<<stem(p), "metadata.json">>] =
                  MergedMetadata(p, meta_env).metadata

----------------------------------------------------------------------------
(* Properties of the vocabulary units (SpecVocab) *)

\* C10: the units counted for a line are exactly the tokens of the line.
C10_UnitsAreTokens ==
    units # <<>> => units = line_tokens

====
